---- MODULE Spec2Model ----
(***************************************************************************)
(* Push-based data channels of timely dataflow: the multicast Tee with its *)
(* TeeHelper (dataflow/channels/pushers/tee.rs), the MapPusher             *)
(* (dataflow/channels/pushers/map.rs) and the Map combinators of Stream    *)
(* (dataflow/operators/map.rs).                                            *)
(*                                                                         *)
(* A push is synchronous: Tee::push calls its sinks, a MapPusher calls its *)
(* inner Tee, and so on, before it returns.  One Push action is therefore  *)
(* one whole call tree, computed by the mutually recursive operators       *)
(* below, which thread the heap (tees, cells) and the event log.           *)
(***************************************************************************)
EXTENDS Integers, Sequences, FiniteSets, TLC

\* ---- bounds -------------------------------------------------------------
MaxLen == 2        \* records in a pushed batch
DataMod == 2       \* records are 0 .. DataMod-1
MaxTime == 1       \* timestamps are 0 .. MaxTime
MaxPushes == 2     \* pushes made by the producer
MaxSinks == 3      \* sinks registered in total
MaxTees == 3       \* Tee values allocated in total
MaxHelpers == 3    \* TeeHelper values (stream registrars) in total
MaxClones == 1     \* clones made of the producer's Tee, and of TeeHelpers
FlushLen == 2      \* records an operator's output buffer holds before it flushes

Data == 0 .. (DataMod - 1)
Time == 0 .. MaxTime
Batches == UNION {[1 .. n -> Data] : n \in 0 .. MaxLen}

\* Option<(T, Content<D>)>
None == [some |-> FALSE, time |-> 0, data |-> <<>>]
Some(t, d) == [some |-> TRUE, time |-> t, data |-> d]
Messages == {None} \cup {Some(t, d) : t \in Time, d \in Batches}

VARIABLES
    tees,      \* Tee values: [buffer, ref_outputs, outputs, ext]
    helpers,   \* TeeHelper values (a Stream's registrar): [ref_outputs, outputs]
    cells,     \* the Rc<RefCell<Vec<Box<..>>>> heap: cell id -> list of sinks
    log,       \* every call made so far, in call order
    slot,      \* the producer's message slot after its last push
    npush,     \* pushes made by the producer
    nsinks,    \* sinks registered
    panicked,  \* a RefCell borrow failed
    queue      \* batches waiting in the input channels of operators

vars == <<tees, helpers, cells, log, slot, npush, nsinks, panicked, queue>>

\* ---- user closures --------------------------------------------------------
\* record-level closures handed to map / map_ref / map_in_place
Fns == {"inc"}
ApplyFn(f, x) == IF f = "inc" THEN (x + 1) % DataMod ELSE x

\* Map::map's closure losing the first record of every batch
MapLogicSkipFirst(f, data) ==
    [i \in 1 .. (IF Len(data) = 0 THEN 0 ELSE Len(data) - 1) |-> ApplyFn(f, data[i + 1])]

\* the closure Map::map builds around `logic`
\* data.replace_with(Vec::new()).into_iter().map(&logic).collect()
MapLogic(f, data) == [i \in 1 .. Len(data) |-> ApplyFn(f, data[i])]

\* closures handed to flat_map: x -> (0 .. 2x-1), as records
FlatFns == {"upto2"}
ApplyFlat(g, x) == IF g = "upto2" THEN [i \in 1 .. 2 * x |-> (i - 1) % DataMod] ELSE <<x>>

\* flat_map's iterator yielding at most one result per record, as a map does
RECURSIVE FlatMapIterHeads(_, _)
FlatMapIterHeads(g, data) ==
    IF data = <<>> THEN <<>>
    ELSE (IF ApplyFlat(g, Head(data)) = <<>> THEN <<>>
          ELSE <<Head(ApplyFlat(g, Head(data)))>>) \o FlatMapIterHeads(g, Tail(data))

\* the iterator Map::flat_map gives to the session:
\* data.drain(..).flat_map(|x| logic(x).into_iter())
RECURSIVE FlatMapIter(_, _)
FlatMapIter(g, data) ==
    IF data = <<>> THEN <<>>
    ELSE ApplyFlat(g, Head(data)) \o FlatMapIter(g, Tail(data))

\* the closure Map::map_ref builds: data.iter().map(&logic).collect()
MapRefLogic(f, data) == [i \in 1 .. Len(data) |-> ApplyFn(f, data[i])]

\* the closure Map::map_in_place builds: for datum in data.iter_mut() { logic(datum) }
RECURSIVE InPlaceFrom(_, _, _)
InPlaceFrom(f, data, i) ==
    IF i > Len(data) THEN data
    ELSE InPlaceFrom(f, [data EXCEPT ![i] = ApplyFn(f, data[i])], i + 1)

\* map_in_place's closure updating the first record of the batch only
MapInPlaceLogicFirstOnly(f, data) ==
    IF data = <<>> THEN data ELSE [data EXCEPT ![1] = ApplyFn(f, data[1])]

MapInPlaceLogic(f, data) == InPlaceFrom(f, data, 1)

\* a batch-level closure: [op, f]
ApplyLogic(L, data) ==
    CASE L.op = "map" -> MapLogic(L.f, data)
      [] L.op = "map_ref" -> MapRefLogic(L.f, data)
      [] L.op = "map_in_place" -> MapInPlaceLogic(L.f, data)
      [] OTHER -> data

\* calls of the record-level closure made by one application of L
LogicCalls(L, data) == Len(data)

NoLogic == [op |-> "none", f |-> "none"]

\* ---- sinks ----------------------------------------------------------------
\* What the terminal sinks do, during one push of the producer, with the
\* message each is handed through push.
Behaviours == {"keep", "take", "mutate"}

Probe(id) == [kind |-> "probe", id |-> id, logic |-> NoLogic, tee |-> 0]
\* the input channel of the operator flat_map builds, whose output is Tee t
Pipe(id, g, t) ==
    [kind |-> "pipe", id |-> id, logic |-> [op |-> "flat_map", f |-> g], tee |-> t]
MapPusher(id, L, t) == [kind |-> "map", id |-> id, logic |-> L, tee |-> t]

\* One call: on what (kind, id), through which method, with which message, at
\* which depth d of the call stack, during which push k of the producer; n is
\* the number of calls of the user's record-level closure it stands for.
Event(kind, id, via, message, n, d, k) ==
    [kind |-> kind, id |-> id, via |-> via, msg |-> message, n |-> n, d |-> d,
     k |-> k]

Record(st, kind, id, via, message, n) ==
    [st EXCEPT !.log = Append(@, Event(kind, id, via, message, n, st.d, st.k))]

\* a call is entered / has returned
Enter(st) == [st EXCEPT !.d = @ + 1]
Leave(st) == [st EXCEPT !.d = @ - 1]

\* RefCell::borrow_mut / the drop of the RefMut
BorrowMut(st, c) ==
    IF c \in st.borrowed THEN [st EXCEPT !.panicked = TRUE]
    ELSE [st EXCEPT !.borrowed = @ \cup {c}]

Release(st, c) == [st EXCEPT !.borrowed = @ \ {c}]

\* ---- registration ---------------------------------------------------------
\* TeeHelper::add_ref_pusher: self.ref_outputs.borrow_mut().push(Box::new(pusher))
add_ref_pusher(cs, helper, pusher) ==
    [cs EXCEPT ![helper.ref_outputs] = Append(@, pusher)]

\* add_pusher that puts the new sink in front of the list
add_pusher_front(cs, helper, pusher) ==
    [cs EXCEPT ![helper.outputs] = <<pusher>> \o @]

\* TeeHelper::add_pusher: self.outputs.borrow_mut().push(Box::new(pusher))
add_pusher(cs, helper, pusher) ==
    [cs EXCEPT ![helper.outputs] = Append(@, pusher)]

\* the number of sinks in the lists c .. of the heap
RECURSIVE CountFrom(_, _)
CountFrom(cs, c) == IF c > Len(cs) THEN 0 ELSE Len(cs[c]) + CountFrom(cs, c + 1)
CountSinks(cs) == CountFrom(cs, 1)

\* A sink whose callback registers a terminal sink on the Tee that calls it,
\* through the clone of the TeeHelper it holds; reg is the method it uses.
Hook(id, reg, helper) ==
    [kind |-> "hook", id |-> id,
     logic |-> [op |-> reg, f |-> "none", helper |-> helper], tee |-> 0]

\* the callback's registration: helper.add_pusher(..) or
\* helper.add_ref_pusher(..), whose borrow_mut() panics when the list is
\* borrowed by the push that is running
HookRegister(st, sink) ==
    LET helper == sink.logic.helper
        c == IF sink.logic.op = "add_pusher" THEN helper.outputs
             ELSE helper.ref_outputs
        new == Probe(CountSinks(st.cells) + 1)
        b == BorrowMut(Record(st, "reg", new.id, sink.logic.op, None, 0), c)
    IN IF CountSinks(st.cells) >= MaxSinks THEN st
       ELSE IF b.panicked THEN b
       ELSE Release([b EXCEPT !.cells =
                        IF sink.logic.op = "add_pusher"
                        THEN add_pusher(@, helper, new)
                        ELSE add_ref_pusher(@, helper, new)], c)

\* the push and push_ref of such a sink: it looks at the message, registers
\* and leaves the message to the caller
HookPush(st, sink, message) ==
    [st |-> Leave(HookRegister(Enter(Record(st, "sink", sink.id, "push",
                                            message, 0)), sink)),
     msg |-> message]

HookPushRef(st, sink, message) ==
    Leave(HookRegister(Enter(Record(st, "sink", sink.id, "push_ref",
                                    message, 0)), sink))

\* ---- the call tree of one push -------------------------------------------
\* st is the heap while a call is running:
\*   [tees, cells, log, queue, borrowed, panicked, d, k, beh]
\* A call that takes `&mut Option<..>` returns [st, msg]: the heap and what
\* it left in the caller's message.
RECURSIVE TeePush(_, _, _)
RECURSIVE BoxPush(_, _, _)
RECURSIVE BoxPushRef(_, _, _)
RECURSIVE push_at(_, _, _, _)
RECURSIVE RefLoop(_, _, _, _)
RECURSIVE OwnLoop(_, _, _, _, _, _)
RECURSIVE NoneLoop(_, _, _)

\* A terminal sink's push: it observes the message, then keeps it, takes it
\* or updates its records in place.
ProbePush(st, sink, message) ==
    LET st1 == Record(st, "sink", sink.id, "push", message, 0)
        left == IF ~message.some THEN message
                ELSE CASE st.beh = "take" -> None
                       [] st.beh = "mutate" ->
                            Some(message.time, MapInPlaceLogic("inc", message.data))
                       [] OTHER -> message
    IN [st |-> st1, msg |-> left]

\* A terminal sink's push_ref: it can only look.
ProbePushRef(st, sink, message) ==
    Record(st, "sink", sink.id, "push_ref", message, 0)

\* The closure map_batch hands to MapPusher::new:
\* move |(time, data)| (time, logic(data))
MapBatchFunc(L, message) == Some(message.time, ApplyLogic(L, message.data))

\* The closure map_batch_ref hands to MapPusher::new:
\* move |&(ref time, ref data)| (time.clone(), logic(data))
MapBatchRefFunc(L, message) == Some(message.time, ApplyLogic(L, message.data))

\* MapPusher::push that runs the function again on its own result.
MapPusherPushTwice(st, sink, message) ==
    LET st1 == Record(st, "sink", sink.id, "push", message, 0)
        once == IF message.some THEN MapBatchFunc(sink.logic, message) ELSE None
        mapped == IF message.some THEN MapBatchFunc(sink.logic, once) ELSE None
        st2 == IF message.some
               THEN Record(Record(Enter(st1), "func", sink.id, "call", message,
                                  LogicCalls(sink.logic, message.data)),
                           "func", sink.id, "call", once,
                           LogicCalls(sink.logic, once.data))
               ELSE Enter(st1)
        r == TeePush(st2, sink.tee, mapped)
    IN [st |-> Leave(r.st), msg |-> None]

\* MapPusher::push that takes an empty batch for no message at all.
MapPusherPushSkipEmpty(st, sink, message) ==
    LET st1 == Record(st, "sink", sink.id, "push", message, 0)
        full == message.some /\ message.data # <<>>
        mapped == IF full THEN MapBatchFunc(sink.logic, message) ELSE None
        st2 == IF full
               THEN Record(Enter(st1), "func", sink.id, "call", message,
                           LogicCalls(sink.logic, message.data))
               ELSE Enter(st1)
        r == TeePush(st2, sink.tee, mapped)
    IN [st |-> Leave(r.st), msg |-> None]

\* MapPusher::push that forwards batches only: a None is swallowed.
MapPusherPushDropNone(st, sink, message) ==
    LET st1 == Record(st, "sink", sink.id, "push", message, 0)
        mapped == IF message.some THEN MapBatchFunc(sink.logic, message) ELSE None
        st2 == IF message.some
               THEN Record(Enter(st1), "func", sink.id, "call", message,
                           LogicCalls(sink.logic, message.data))
               ELSE Enter(st1)
    IN IF message.some
       THEN [st |-> Leave(TeePush(st2, sink.tee, mapped).st), msg |-> None]
       ELSE [st |-> Leave(st2), msg |-> None]

\* MapPusher::push that puts the message aside for later, as the input
\* channel of an operator does, instead of pushing into its Tee.
MapPusherPushDeferred(st, sink, message) ==
    LET st1 == Record(st, "sink", sink.id, "push", message, 0)
    IN [st |-> [st1 EXCEPT !.queue = Append(@, [to |-> sink.id,
                                                 time |-> message.time,
                                                 data |-> message.data])],
        msg |-> None]

\* MapPusher::push
\*   let mut mapped = message.take().map(&self.func);
\*   self.pusher.push(&mut mapped);
MapPusherPush(st, sink, message) ==
    LET st1 == Record(st, "sink", sink.id, "push", message, 0)
        mapped == IF message.some THEN MapBatchFunc(sink.logic, message) ELSE None
        st2 == IF message.some
               THEN Record(Enter(st1), "func", sink.id, "call", message,
                           LogicCalls(sink.logic, message.data))
               ELSE Enter(st1)
        r == TeePush(st2, sink.tee, mapped)
    IN [st |-> Leave(r.st), msg |-> None]

\* MapPusher::push_ref that forwards batches only: a borrowed None is dropped.
MapPusherPushRefDropNone(st, sink, message) ==
    LET st1 == Record(st, "sink", sink.id, "push_ref", message, 0)
        mapped == IF message.some THEN MapBatchRefFunc(sink.logic, message) ELSE None
        st2 == IF message.some
               THEN Record(Enter(st1), "func", sink.id, "call", message,
                           LogicCalls(sink.logic, message.data))
               ELSE Enter(st1)
    IN IF message.some THEN Leave(TeePush(st2, sink.tee, mapped).st)
       ELSE Leave(st2)

\* MapPusher::push_ref that applies the function and then forwards a copy of
\* what it was lent instead of the result.
MapPusherPushRefRaw(st, sink, message) ==
    LET st1 == Record(st, "sink", sink.id, "push_ref", message, 0)
        st2 == IF message.some
               THEN Record(Enter(st1), "func", sink.id, "call", message,
                           LogicCalls(sink.logic, message.data))
               ELSE Enter(st1)
        r == TeePush(st2, sink.tee, message)
    IN Leave(r.st)

\* MapPusher::push_ref
\*   let mut mapped = message.map(&self.func);
\*   self.pusher.push(&mut mapped);
MapPusherPushRef(st, sink, message) ==
    LET st1 == Record(st, "sink", sink.id, "push_ref", message, 0)
        mapped == IF message.some THEN MapBatchRefFunc(sink.logic, message) ELSE None
        st2 == IF message.some
               THEN Record(Enter(st1), "func", sink.id, "call", message,
                           LogicCalls(sink.logic, message.data))
               ELSE Enter(st1)
        r == TeePush(st2, sink.tee, mapped)
    IN Leave(r.st)

\* The push of an operator's input channel: the batch is taken and queued
\* until the operator is scheduled.
PipePush(st, sink, message) ==
    LET st1 == Record(st, "sink", sink.id, "push", message, 0)
    IN [st |-> IF message.some
               THEN [st1 EXCEPT !.queue = Append(@, [to |-> sink.id,
                                                     time |-> message.time,
                                                     data |-> message.data])]
               ELSE st1,
        msg |-> None]

\* pusher.push(..) on a Box<Push<..>>
BoxPush(st, sink, message) ==
    CASE sink.kind = "map" -> MapPusherPush(st, sink, message)
      [] sink.kind = "pipe" -> PipePush(st, sink, message)
      [] sink.kind = "hook" -> HookPush(st, sink, message)
      [] OTHER -> ProbePush(st, sink, message)

\* ref_pusher.push_ref(..) on a Box<PushRef<..>>
BoxPushRef(st, sink, message) ==
    CASE sink.kind = "map" -> MapPusherPushRef(st, sink, message)
      [] sink.kind = "hook" -> HookPushRef(st, sink, message)
      [] OTHER -> ProbePushRef(st, sink, message)

\* Content::push_at(buffer, time, pusher): wraps the buffer's records in a
\* message, pushes it, and leaves the buffer empty whatever the sink left.
push_at(st, buffer, time, pusher) ==
    LET message == Some(time, buffer)
        r == BoxPush(st, pusher, message)
    IN [st |-> r.st,
        buffer |-> IF r.msg.some
                   THEN SubSeq(r.msg.data, 1, 0)   \* typed.clear(); *buffer = typed
                   ELSE <<>>]                      \* a new, empty Vec

\* for ref_pusher in self.ref_outputs.borrow_mut().iter_mut() { .. }
RefLoop(st, pushers, i, message) ==
    IF i > Len(pushers) \/ st.panicked THEN st
    ELSE RefLoop(BoxPushRef(st, pushers[i], message), pushers, i + 1, message)

\* OwnLoop with the scratch buffer kept as the sink's push left it: what was
\* copied for one sink is still in the buffer when the next copy is made.
RECURSIVE OwnLoopStale(_, _, _, _, _, _)
OwnLoopStale(st, t, pushers, index, time, data) ==
    IF index >= Len(pushers) \/ st.panicked THEN [st |-> st, data |-> data]
    ELSE IF index < Len(pushers) - 1
    THEN LET extended == st.tees[t].buffer \o data
             r == push_at(st, extended, time, pushers[index + 1])
             st2 == [r.st EXCEPT !.tees[t].buffer = extended]
         IN OwnLoopStale(st2, t, pushers, index + 1, time, data)
    ELSE LET r == push_at(st, data, time, pushers[index + 1])
         IN OwnLoopStale(r.st, t, pushers, index + 1, time, r.buffer)

\* OwnLoop with no copy: every sink is lent the original batch and the next
\* sink gets what the previous one left of it.
RECURSIVE OwnLoopShared(_, _, _, _, _, _)
OwnLoopShared(st, t, pushers, index, time, data) ==
    IF index >= Len(pushers) \/ st.panicked THEN [st |-> st, data |-> data]
    ELSE LET r == BoxPush(st, pushers[index + 1], Some(time, data))
         IN OwnLoopShared(r.st, t, pushers, index + 1, time,
                          IF r.msg.some THEN r.msg.data ELSE <<>>)

\* OwnLoop with the bound of the copies computed ahead of the loop, as
\* `let last = pushers.len() - 1`: with no owning sink the subtraction
\* overflows and the push panics.
RECURSIVE OwnLoopHoisted(_, _, _, _, _, _)
OwnLoopHoisted(st, t, pushers, index, time, data) ==
    IF Len(pushers) = 0 THEN [st |-> [st EXCEPT !.panicked = TRUE], data |-> <<>>]
    ELSE IF index >= Len(pushers) \/ st.panicked THEN [st |-> st, data |-> data]
    ELSE IF index < Len(pushers) - 1
    THEN LET extended == st.tees[t].buffer \o data
             st1 == [st EXCEPT !.tees[t].buffer = <<>>]
             r == push_at(st1, extended, time, pushers[index + 1])
             st2 == [r.st EXCEPT !.tees[t].buffer = r.buffer]
         IN OwnLoopHoisted(st2, t, pushers, index + 1, time, data)
    ELSE LET r == push_at(st, data, time, pushers[index + 1])
         IN OwnLoopHoisted(r.st, t, pushers, index + 1, time, r.buffer)

\* for index in 0..pushers.len() { .. }, the Some branch of Tee::push
OwnLoop(st, t, pushers, index, time, data) ==
    IF index >= Len(pushers) \/ st.panicked THEN [st |-> st, data |-> data]
    ELSE IF index < Len(pushers) - 1
    THEN LET extended == st.tees[t].buffer \o data
             st1 == [st EXCEPT !.tees[t].buffer = <<>>]
             r == push_at(st1, extended, time, pushers[index + 1])
             st2 == [r.st EXCEPT !.tees[t].buffer = r.buffer]
         IN OwnLoop(st2, t, pushers, index + 1, time, data)
    ELSE LET r == push_at(st, data, time, pushers[index + 1])
         IN OwnLoop(r.st, t, pushers, index + 1, time, r.buffer)

\* NoneLoop that treats the last sink as the Some branch does its copies:
\* all but the last are served.
RECURSIVE NoneLoopButLast(_, _, _)
NoneLoopButLast(st, pushers, i) ==
    IF i >= Len(pushers) \/ st.panicked THEN st
    ELSE NoneLoopButLast(BoxPush(st, pushers[i], None).st, pushers, i + 1)

\* for pusher in self.outputs.borrow_mut().iter_mut() { pusher.push(&mut None) }
NoneLoop(st, pushers, i) ==
    IF i > Len(pushers) \/ st.panicked THEN st
    ELSE NoneLoop(BoxPush(st, pushers[i], None).st, pushers, i + 1)

\* Tee::push whose byref sinks consume: once a byref sink was served, the
\* message is gone and the owning sinks are told None.
TeePushRefTakes(st, t, message) ==
    LET rc == st.tees[t].ref_outputs
        oc == st.tees[t].outputs
        st0 == Enter(Record(st, "tee", t, "push", message, 0))
        st1 == RefLoop(st0, st0.cells[rc], 1, message)
        left == IF st0.cells[rc] = <<>> THEN message ELSE None
    IN IF left.some
       THEN LET r == OwnLoop(st1, t, st1.cells[oc], 0, left.time, left.data)
            IN [st |-> Leave(r.st), msg |-> Some(left.time, r.data)]
       ELSE [st |-> Leave(NoneLoop(st1, st1.cells[oc], 1)), msg |-> left]

\* Tee::push that serves the owning sinks first and lends the byref sinks
\* what the last owning sink left of the message.
TeePushOwnFirst(st, t, message) ==
    LET rc == st.tees[t].ref_outputs
        oc == st.tees[t].outputs
        st0 == Enter(Record(st, "tee", t, "push", message, 0))
    IN IF message.some
       THEN LET r == OwnLoop(st0, t, st0.cells[oc], 0, message.time, message.data)
            IN [st |-> Leave(RefLoop(r.st, r.st.cells[rc], 1,
                                     Some(message.time, r.data))),
                msg |-> Some(message.time, r.data)]
       ELSE [st |-> Leave(RefLoop(NoneLoop(st0, st0.cells[oc], 1),
                                  st0.cells[rc], 1, message)),
             msg |-> message]

\* Tee::push of a Tee that remembers closure: once it has forwarded a None it
\* forwards nothing more.
TeePushClosed(st, t, message) ==
    LET rc == st.tees[t].ref_outputs
        oc == st.tees[t].outputs
        closed == \E i \in DOMAIN st.log :
                      /\ st.log[i].kind = "tee"
                      /\ st.tees[st.log[i].id].outputs = oc
                      /\ ~st.log[i].msg.some
        st0 == Enter(Record(st, "tee", t, "push", message, 0))
        st1 == RefLoop(st0, st0.cells[rc], 1, message)
    IN IF closed THEN [st |-> Leave(st0), msg |-> message]
       ELSE IF message.some
       THEN LET r == OwnLoop(st1, t, st1.cells[oc], 0, message.time, message.data)
            IN [st |-> Leave(r.st), msg |-> Some(message.time, r.data)]
       ELSE [st |-> Leave(NoneLoop(st1, st1.cells[oc], 1)), msg |-> message]

\* Tee::push
TeePush(st, t, message) ==
    LET rc == st.tees[t].ref_outputs
        oc == st.tees[t].outputs
        st0 == Enter(Record(st, "tee", t, "push", message, 0))
        b1 == BorrowMut(st0, rc)
        st1 == IF b1.panicked THEN b1
               ELSE Release(RefLoop(b1, b1.cells[rc], 1, message), rc)
    IN IF st1.panicked THEN [st |-> Leave(st1), msg |-> message]
       ELSE LET b2 == BorrowMut(st1, oc)
            IN IF b2.panicked THEN [st |-> Leave(b2), msg |-> message]
               ELSE IF message.some
               THEN LET r == OwnLoop(b2, t, b2.cells[oc], 0, message.time, message.data)
                    IN [st |-> Leave(Release(r.st, oc)),
                        msg |-> Some(message.time, r.data)]
               ELSE [st |-> Leave(Release(NoneLoop(b2, b2.cells[oc], 1), oc)),
                     msg |-> message]

\* ---- construction ---------------------------------------------------------
\* Tee::new(): one Tee and one TeeHelper over two new shared lists
Init ==
    /\ tees = <<[buffer |-> <<>>, ref_outputs |-> 1, outputs |-> 2, ext |-> TRUE]>>
    /\ helpers = <<[ref_outputs |-> 1, outputs |-> 2]>>
    /\ cells = << <<>>, <<>> >>
    /\ log = <<>>
    /\ slot = None
    /\ npush = 0
    /\ nsinks = 0
    /\ panicked = FALSE
    /\ queue = <<>>

\* Tee::clone: a new buffer, the same two lists
TeeClone(tee) ==
    [buffer |-> <<>>, ref_outputs |-> tee.ref_outputs, outputs |-> tee.outputs,
     ext |-> tee.ext]

\* TeeHelper::clone
TeeHelperClone(helper) ==
    [ref_outputs |-> helper.ref_outputs, outputs |-> helper.outputs]

\* Map::map_batch: a new Tee and TeeHelper, a MapPusher around the Tee added to
\* this stream's owning sinks, and the new stream around the TeeHelper.
map_batch(h, L) ==
    /\ nsinks < MaxSinks
    /\ Len(tees) < MaxTees
    /\ Len(helpers) < MaxHelpers
    /\ LET rc == Len(cells) + 1
           oc == Len(cells) + 2
           t == Len(tees) + 1
       IN /\ tees' = Append(tees, [buffer |-> <<>>, ref_outputs |-> rc,
                                   outputs |-> oc, ext |-> FALSE])
          /\ helpers' = Append(helpers, [ref_outputs |-> rc, outputs |-> oc])
          /\ cells' = add_pusher(cells \o << <<>>, <<>> >>, helpers[h],
                                 MapPusher(nsinks + 1, L, t))
    /\ nsinks' = nsinks + 1
    /\ UNCHANGED <<log, slot, npush, panicked, queue>>

\* Map::map_batch_ref: as map_batch, the MapPusher added to the byref sinks.
map_batch_ref(h, L) ==
    /\ nsinks < MaxSinks
    /\ Len(tees) < MaxTees
    /\ Len(helpers) < MaxHelpers
    /\ LET rc == Len(cells) + 1
           oc == Len(cells) + 2
           t == Len(tees) + 1
       IN /\ tees' = Append(tees, [buffer |-> <<>>, ref_outputs |-> rc,
                                   outputs |-> oc, ext |-> FALSE])
          /\ helpers' = Append(helpers, [ref_outputs |-> rc, outputs |-> oc])
          /\ cells' = add_ref_pusher(cells \o << <<>>, <<>> >>, helpers[h],
                                     MapPusher(nsinks + 1, L, t))
    /\ nsinks' = nsinks + 1
    /\ UNCHANGED <<log, slot, npush, panicked, queue>>

\* ---- actions --------------------------------------------------------------
\* a registration that replays to the new sink what was pushed before it came
AddPusherReplay(h) ==
    /\ nsinks < MaxSinks
    /\ cells' = add_pusher(cells, helpers[h], Probe(nsinks + 1))
    /\ nsinks' = nsinks + 1
    /\ LET roots == SelectSeq(log, LAMBDA e : e.kind = "tee" /\ e.d = 0)
       IN log' = log \o [i \in 1 .. Len(roots) |->
                            Event("sink", nsinks + 1, "push", roots[i].msg, 0, 1,
                                  roots[i].k)]
    /\ UNCHANGED <<tees, helpers, slot, npush, panicked, queue>>

\* a terminal sink is attached to stream h as an owning sink
AddPusher(h) ==
    /\ nsinks < MaxSinks
    /\ cells' = add_pusher(cells, helpers[h], Probe(nsinks + 1))
    /\ nsinks' = nsinks + 1
    /\ UNCHANGED <<tees, helpers, log, slot, npush, panicked, queue>>

\* a terminal sink is attached to stream h as a byref sink
AddRefPusher(h) ==
    /\ nsinks < MaxSinks
    /\ cells' = add_ref_pusher(cells, helpers[h], Probe(nsinks + 1))
    /\ nsinks' = nsinks + 1
    /\ UNCHANGED <<tees, helpers, log, slot, npush, panicked, queue>>

\* Map::map
Map(h, f) == map_batch(h, [op |-> "map", f |-> f])

\* Map::map_ref
MapRef(h, f) == map_batch_ref(h, [op |-> "map_ref", f |-> f])

\* Map::map_in_place
MapInPlace(h, f) == map_batch(h, [op |-> "map_in_place", f |-> f])

\* a sink that registers from its callback is attached as an owning sink
AddHook(h, reg) ==
    /\ nsinks < MaxSinks
    /\ cells' = add_pusher(cells, helpers[h],
                           Hook(nsinks + 1, reg, TeeHelperClone(helpers[h])))
    /\ nsinks' = nsinks + 1
    /\ UNCHANGED <<tees, helpers, log, slot, npush, panicked, queue>>

\* a sink that registers from its callback is attached as a byref sink
AddRefHook(h, reg) ==
    /\ nsinks < MaxSinks
    /\ cells' = add_ref_pusher(cells, helpers[h],
                               Hook(nsinks + 1, reg, TeeHelperClone(helpers[h])))
    /\ nsinks' = nsinks + 1
    /\ UNCHANGED <<tees, helpers, log, slot, npush, panicked, queue>>

\* a clone that takes copies of the two lists instead of sharing them
CloneTeeFork(t) ==
    /\ tees[t].ext
    /\ Len(tees) < MaxTees
    /\ Cardinality({u \in 1 .. Len(tees) : tees[u].ext}) <= MaxClones
    /\ tees' = Append(tees, [buffer |-> <<>>, ref_outputs |-> Len(cells) + 1,
                              outputs |-> Len(cells) + 2, ext |-> TRUE])
    /\ cells' = cells \o <<cells[tees[t].ref_outputs], cells[tees[t].outputs]>>
    /\ UNCHANGED <<helpers, log, slot, npush, nsinks, panicked, queue>>

\* the producer clones its Tee
CloneTee(t) ==
    /\ tees[t].ext
    /\ Len(tees) < MaxTees
    /\ Cardinality({u \in 1 .. Len(tees) : tees[u].ext}) <= MaxClones
    /\ tees' = Append(tees, TeeClone(tees[t]))
    /\ UNCHANGED <<helpers, cells, log, slot, npush, nsinks, panicked, queue>>

\* a stream (its TeeHelper) is cloned
CloneHelper(h) ==
    /\ Len(helpers) < MaxHelpers
    /\ Len(helpers) - Cardinality({u \in 1 .. Len(tees) : ~tees[u].ext}) <= MaxClones
    /\ helpers' = Append(helpers, TeeHelperClone(helpers[h]))
    /\ UNCHANGED <<tees, cells, log, slot, npush, nsinks, panicked, queue>>

\* the producer pushes a message into its Tee (or a clone of it)
Push(t, message, beh) ==
    /\ tees[t].ext
    /\ ~panicked
    /\ npush < MaxPushes
    /\ LET st == [tees |-> tees, cells |-> cells, log |-> log, queue |-> queue,
                  borrowed |-> {}, panicked |-> FALSE, d |-> 0, k |-> npush + 1,
                  beh |-> beh]
           r == TeePush(st, t, message)
       IN /\ tees' = r.st.tees
          /\ cells' = r.st.cells
          /\ log' = r.st.log
          /\ queue' = r.st.queue
          /\ panicked' = r.st.panicked
          /\ slot' = r.msg
    /\ npush' = npush + 1
    /\ nsinks' = CountSinks(cells')   \* sinks registered by callbacks count
    /\ UNCHANGED helpers

\* ---- flat_map ------------------------------------------------------------
\* Map::flat_map: unary_stream builds an operator whose input channel is
\* added to this stream's owning sinks and whose output is a new stream.
FlatMap(h, g) ==
    /\ npush = 0
    /\ nsinks < MaxSinks
    /\ Len(tees) < MaxTees
    /\ Len(helpers) < MaxHelpers
    /\ LET rc == Len(cells) + 1
           oc == Len(cells) + 2
           t == Len(tees) + 1
       IN /\ tees' = Append(tees, [buffer |-> <<>>, ref_outputs |-> rc,
                                   outputs |-> oc, ext |-> FALSE])
          /\ helpers' = Append(helpers, [ref_outputs |-> rc, outputs |-> oc])
          /\ cells' = add_pusher(cells \o << <<>>, <<>> >>, helpers[h],
                                 Pipe(nsinks + 1, g, t))
    /\ nsinks' = nsinks + 1
    /\ UNCHANGED <<log, slot, npush, panicked, queue>>

\* An operator's output while its logic runs is ob = [st, buf]: the heap and
\* the output buffer [time, data].
\* The output buffer is flushed: its records go to the operator's Tee as one
\* batch with the session's timestamp.
Flush(ob, op) ==
    IF ob.buf.data = <<>> THEN ob.st
    ELSE TeePush(ob.st, op.tee, Some(ob.buf.time, ob.buf.data)).st

\* give_iterator: each item goes to the output buffer, which is flushed
\* whenever it is full
RECURSIVE GiveIterator(_, _, _, _)
GiveIterator(ob, op, items, j) ==
    IF j > Len(items) THEN ob
    ELSE IF Len(ob.buf.data) + 1 >= FlushLen
    THEN GiveIterator(
             [st |-> Flush([ob EXCEPT !.buf.data = Append(@, items[j])], op),
              buf |-> [ob.buf EXCEPT !.data = <<>>]],
             op, items, j + 1)
    ELSE GiveIterator([ob EXCEPT !.buf.data = Append(@, items[j])],
                      op, items, j + 1)

\* output.session(&time): a session at another timestamp than the last one
\* first flushes what the buffer holds
Session(ob, op, time) ==
    IF ob.buf.time # time
    THEN [st |-> Flush(ob, op), buf |-> [time |-> time, data |-> <<>>]]
    ELSE ob

\* The operator's logic, run over the batches waiting in its input:
\*   input.for_each(|time, data| {
\*       output.session(&time).give_iterator(data.drain(..).flat_map(..)); });
RECURSIVE FlatMapRun(_, _, _, _)
FlatMapRun(ob, op, inputs, i) ==
    IF i > Len(inputs) THEN ob
    ELSE FlatMapRun(GiveIterator(Session(ob, op, inputs[i].time), op,
                                 FlatMapIter(op.logic.f, inputs[i].data), 1),
                    op, inputs, i + 1)

IsFor(q, id) == q.to = id

\* what a run of an operator leaves behind
Returned(st) ==
    /\ tees' = st.tees
    /\ cells' = st.cells
    /\ log' = st.log
    /\ queue' = st.queue
    /\ panicked' = st.panicked

\* the worker schedules the operator of a flat_map: its logic runs over the
\* waiting batches, then what is left in the output buffer is flushed
Schedule(op, beh) ==
    /\ op.kind = "pipe"
    /\ ~panicked
    /\ \E q \in 1 .. Len(queue) : queue[q].to = op.id
    /\ LET inputs == SelectSeq(queue, LAMBDA q : IsFor(q, op.id))
           rest == SelectSeq(queue, LAMBDA q : ~IsFor(q, op.id))
           st == [tees |-> tees, cells |-> cells, log |-> log, queue |-> rest,
                  borrowed |-> {}, panicked |-> FALSE, d |-> 0, k |-> 0,
                  beh |-> beh]
       IN Returned(Flush(FlatMapRun([st |-> st,
                                     buf |-> [time |-> inputs[1].time,
                                              data |-> <<>>]],
                                    op, inputs, 1),
                         op))
    /\ UNCHANGED <<helpers, slot, npush, nsinks>>

\* Streams are wired up before the producer runs.
Building == npush = 0

Next ==
    \/ Building /\ \E h \in 1 .. Len(helpers) : AddPusher(h)
    \/ Building /\ \E h \in 1 .. Len(helpers) : AddRefPusher(h)
    \/ Building /\ \E h \in 1 .. Len(helpers), f \in Fns : Map(h, f)
    \/ Building /\ \E h \in 1 .. Len(helpers), f \in Fns : MapRef(h, f)
    \/ Building /\ \E h \in 1 .. Len(helpers), f \in Fns : MapInPlace(h, f)
    \/ \E t \in 1 .. Len(tees), message \in Messages, beh \in Behaviours :
            Push(t, message, beh)

Spec == Init /\ [][Next]_vars

\* One Tee, its clones and the clones of its TeeHelper; sinks come and go
\* between the producer's pushes.
NextTee ==
    \/ \E h \in 1 .. Len(helpers) : AddPusher(h)
    \/ \E h \in 1 .. Len(helpers) : AddRefPusher(h)
    \/ \E t \in 1 .. Len(tees) : CloneTee(t)
    \/ \E h \in 1 .. Len(helpers) : CloneHelper(h)
    \/ \E t \in 1 .. Len(tees), message \in Messages, beh \in Behaviours :
            Push(t, message, beh)

SpecTee == Init /\ [][NextTee]_vars

\* Streams built with flat_map, with terminal sinks on them.
NextFlat ==
    \/ Building /\ \E h \in 1 .. Len(helpers) : AddPusher(h)
    \/ Building /\ \E h \in 1 .. Len(helpers), g \in FlatFns : FlatMap(h, g)
    \/ \E t \in 1 .. Len(tees), message \in Messages, beh \in Behaviours :
            Push(t, message, beh)
    \/ \E c \in 1 .. Len(cells), beh \in Behaviours :
            \E x \in 1 .. Len(cells[c]) : Schedule(cells[c][x], beh)

SpecFlat == Init /\ [][NextFlat]_vars

\* One Tee whose sinks may register further sinks from within a push.
Regs == {"add_pusher", "add_ref_pusher"}

NextHook ==
    \/ Building /\ \E h \in 1 .. Len(helpers) : AddPusher(h)
    \/ Building /\ \E h \in 1 .. Len(helpers) : AddRefPusher(h)
    \/ Building /\ \E h \in 1 .. Len(helpers), reg \in Regs : AddHook(h, reg)
    \/ Building /\ \E h \in 1 .. Len(helpers), reg \in Regs : AddRefHook(h, reg)
    \/ \E t \in 1 .. Len(tees), message \in Messages : Push(t, message, "keep")

SpecHook == Init /\ [][NextHook]_vars

\* ---- observations ---------------------------------------------------------
SinksOf(c) == {cells[c][i] : i \in 1 .. Len(cells[c])}
RefSinks(t) == SinksOf(tees[t].ref_outputs)
OwnSinks(t) == SinksOf(tees[t].outputs)
AllSinks == UNION {SinksOf(c) : c \in 1 .. Len(cells)}
Probes == {s \in AllSinks : s.kind = "probe"}
MapPushers == {s \in AllSinks : s.kind = "map"}

\* the calls of one kind made on one sink or Tee during the producer's k-th push
Calls(kind, id, k) ==
    {i \in DOMAIN log : log[i].kind = kind /\ log[i].id = id /\ log[i].k = k}

\* the calls made by call i itself, before it returned
Children(i) ==
    {j \in DOMAIN log :
        /\ j > i
        /\ log[j].d = log[i].d + 1
        /\ \A m \in (i + 1) .. j : log[m].d > log[i].d}

\* those of them made on sink s
CallsOn(i, s) == {j \in Children(i) : log[j].kind = "sink" /\ log[j].id = s.id}

TeePushes == {i \in DOMAIN log : log[i].kind = "tee"}

\* call i called each sink of `sinks` exactly once, through `via`, with `message`
DeliveredOnce(i, sinks, via, message) ==
    \A s \in sinks :
        /\ Cardinality(CallsOn(i, s)) = 1
        /\ \A j \in CallsOn(i, s) : log[j].via = via /\ log[j].msg = message

\* C1  Fan-out fidelity: whenever a Tee is pushed Some((T, R)), each of its
\* owning sinks is called exactly once for that push, with timestamp T and
\* exactly the records R, in order, however many owning sinks there are.
FanOutFidelity ==
    \A i \in TeePushes :
        log[i].msg.some =>
            DeliveredOnce(i, OwnSinks(log[i].id), "push", log[i].msg)

\* two pushes of non-empty batches went through a Tee with two owning sinks
FanOutWitness ==
    /\ npush = 2
    /\ Cardinality(OwnSinks(1)) >= 2
    /\ \A k \in 1 .. 2 : \E i \in Calls("tee", 1, k) :
           log[i].msg.some /\ Len(log[i].msg.data) = 2
    /\ \A s \in OwnSinks(1) : \A k \in 1 .. 2 : Calls("sink", s.id, k) # {}

\* C2  Closure propagation: whenever a Tee is pushed None, each of its byref
\* sinks gets exactly one None through push_ref and each of its owning sinks
\* exactly one None through push; with no sinks the push calls nothing.
ClosurePropagation ==
    \A i \in TeePushes :
        ~log[i].msg.some =>
            /\ DeliveredOnce(i, RefSinks(log[i].id), "push_ref", None)
            /\ DeliveredOnce(i, OwnSinks(log[i].id), "push", None)
            /\ Cardinality(Children(i)) =
                   Cardinality(RefSinks(log[i].id)) + Cardinality(OwnSinks(log[i].id))

\* a None went through a Tee with a byref sink and two owning sinks
ClosureWitness ==
    /\ Cardinality(RefSinks(1)) >= 1
    /\ Cardinality(OwnSinks(1)) >= 2
    /\ \E i \in TeePushes : log[i].id = 1 /\ ~log[i].msg.some
    /\ \A s \in RefSinks(1) \cup OwnSinks(1) : \E j \in DOMAIN log :
           log[j].kind = "sink" /\ log[j].id = s.id /\ ~log[j].msg.some

\* ---- what a graph of streams should deliver -------------------------------
\* the list a sink is registered in, the Tee that serves that list, and the
\* MapPusher that owns a combinator's Tee
CellOf(s) == CHOOSE c \in 1 .. Len(cells) : s \in SinksOf(c)
TeeOfCell(c) ==
    CHOOSE t \in 1 .. Len(tees) : tees[t].ref_outputs = c \/ tees[t].outputs = c
Feeder(t) == CHOOSE s \in MapPushers : s.tee = t

\* a message after the record-level closure f was applied to each record
Through(f, m) ==
    IF m.some THEN Some(m.time, [j \in 1 .. Len(m.data) |-> ApplyFn(f, m.data[j])])
    ELSE None

\* what the producer's message m becomes on its way to sink s
RECURSIVE Derived(_, _)
Derived(s, m) ==
    LET t == TeeOfCell(CellOf(s))
    IN IF tees[t].ext THEN m
       ELSE Through(Feeder(t).logic.f, Derived(Feeder(t), m))

\* the message of the producer's k-th push
Pushed(k) == log[CHOOSE i \in TeePushes : log[i].d = 0 /\ log[i].k = k].msg

\* everything sink s was called with, in call order
IsCallOn(e, id) == e.kind = "sink" /\ e.id = id
Seen(s) == SelectSeq(log, LAMBDA e : IsCallOn(e, s.id))

\* C3  Order preservation: every terminal sink of the graph has been called
\* exactly once per push of the producer, in the order of the pushes, each
\* time with the message derived from that push (Some or None).
OrderPreservation ==
    \A s \in Probes :
        /\ Len(Seen(s)) = npush
        /\ \A k \in 1 .. npush :
               Seen(s)[k].k = k /\ Seen(s)[k].msg = Derived(s, Pushed(k))

\* a batch and then a None reached a terminal sink behind two combinators
OrderWitness ==
    /\ npush = 2
    /\ Pushed(1).some /\ Len(Pushed(1).data) = 2 /\ ~Pushed(2).some
    /\ \E s \in Probes :
           /\ ~tees[TeeOfCell(CellOf(s))].ext
           /\ ~tees[TeeOfCell(CellOf(Feeder(TeeOfCell(CellOf(s)))))].ext
           /\ Len(Seen(s)) = 2

\* the calls Tee push i made on sink a all came before those it made on sink b
Before(i, a, b) == \A j1 \in CallsOn(i, a), j2 \in CallsOn(i, b) : j1 < j2

\* C4 as stated: of any two sinks of a Tee, the one registered first is called
\* first on every push, whichever list each is in.
RegistrationOrderAnyList ==
    \A i \in TeePushes :
        \A a, b \in RefSinks(log[i].id) \cup OwnSinks(log[i].id) :
            a.id < b.id => Before(i, a, b)

\* C4  Registration order, amended: of two sinks registered with the same
\* method on a Tee (both add_pusher or both add_ref_pusher), the one
\* registered first is called first on every push.
RegistrationOrder ==
    \A i \in TeePushes :
        /\ \A a, b \in RefSinks(log[i].id) : a.id < b.id => Before(i, a, b)
        /\ \A a, b \in OwnSinks(log[i].id) : a.id < b.id => Before(i, a, b)

\* a Tee with two owning sinks and a byref sink registered last was pushed
RegistrationWitness ==
    /\ Cardinality(OwnSinks(1)) = 2
    /\ \E r \in RefSinks(1) : r.id = 3
    /\ \E i \in TeePushes :
           log[i].id = 1 /\ \A s \in OwnSinks(1) \cup RefSinks(1) : CallsOn(i, s) # {}

\* the pushes a sink's call i made on the sink's own Tee
ForwardsOf(i, s) == {j \in Children(i) : log[j].kind = "tee" /\ log[j].id = s.tee}

\* the calls of its function a sink's call i made
FuncCallsOf(i, s) == {j \in Children(i) : log[j].kind = "func" /\ log[j].id = s.id}

CallsOfSink(s) == {i \in DOMAIN log : IsCallOn(log[i], s.id)}

\* the pushes into the Tee of sink s that Tee push u led to, through s
YieldsOf(u, s) == UNION {ForwardsOf(i, s) : i \in CallsOn(u, s)}

\* C5  Map correctness: each batch (T, B) pushed into the Tee of a stream
\* leads, through the MapPusher of a map(f) on that stream, to exactly one
\* push into the new stream's Tee, of a batch (T, B') with Len(B') = Len(B)
\* and B'[j] = f(B[j]).
MapCorrectness ==
    \A s \in MapPushers : s.logic.op = "map" =>
        \A u \in TeePushes :
            (log[u].id = TeeOfCell(CellOf(s)) /\ log[u].msg.some) =>
                /\ Cardinality(YieldsOf(u, s)) = 1
                /\ \A j \in YieldsOf(u, s) :
                       /\ log[j].msg.some
                       /\ log[j].msg.time = log[u].msg.time
                       /\ Len(log[j].msg.data) = Len(log[u].msg.data)
                       /\ \A x \in 1 .. Len(log[u].msg.data) :
                              log[j].msg.data[x] =
                                  ApplyFn(s.logic.f, log[u].msg.data[x])

\* a map(f) was pushed two batches of two records with different timestamps
MapWitness ==
    \E s \in MapPushers :
        /\ s.logic.op = "map"
        /\ \E i1, i2 \in CallsOfSink(s) :
               /\ log[i1].msg.some /\ log[i2].msg.some
               /\ log[i1].msg.time # log[i2].msg.time
               /\ Len(log[i1].msg.data) = 2 /\ Len(log[i2].msg.data) = 2
               /\ ForwardsOf(i1, s) # {} /\ ForwardsOf(i2, s) # {}

RECURSIVE SumN(_)
SumN(S) == IF S = {} THEN 0
           ELSE LET j == CHOOSE x \in S : TRUE IN log[j].n + SumN(S \ {j})

\* C6  Map followed by fan-out: a batch (T, B) that reaches the MapPusher of a
\* map(f) is seen as (T, f(B)) by every owning sink of the new stream, f having
\* been called Len(B) times in all; a None is seen as one None by each.
MapFanOut ==
    \A s \in MapPushers : s.logic.op = "map" =>
        \A i \in CallsOfSink(s) :
            /\ Cardinality(ForwardsOf(i, s)) = 1
            /\ \A j \in ForwardsOf(i, s) :
                   DeliveredOnce(j, OwnSinks(s.tee), "push",
                                 Through(s.logic.f, log[i].msg))
            /\ SumN(FuncCallsOf(i, s)) = Len(log[i].msg.data)

\* a map(f) with two owning sinks on its stream was pushed a batch, then None
MapFanOutWitness ==
    /\ npush = 2
    /\ \E s \in MapPushers :
        /\ s.logic.op = "map"
        /\ Cardinality(OwnSinks(s.tee)) = 2
        /\ \A p \in OwnSinks(s.tee) :
               /\ Len(Seen(p)) = 2
               /\ Seen(p)[1].msg.some /\ Len(Seen(p)[1].msg.data) = 2
               /\ ~Seen(p)[2].msg.some

\* C7  Copy independence: when a Tee is pushed Some((T, R)), whatever the
\* other owning sinks were handed and did with it (the terminal sinks keep,
\* take or update their batch in every push; a MapPusher takes it), every
\* owning sink is called with exactly R, and each combinator among them pushes
\* its function of R, not of another sink's result, into its own stream.
CopyIndependence ==
    \A i \in TeePushes : log[i].msg.some =>
        \A a, b \in OwnSinks(log[i].id) : a # b =>
            /\ CallsOn(i, a) # {} /\ CallsOn(i, b) # {}
            /\ \A jb \in CallsOn(i, b) : log[jb].msg.data = log[i].msg.data
            /\ b.kind = "map" =>
                   \A jb \in CallsOn(i, b) :
                       /\ ForwardsOf(jb, b) # {}
                       /\ \A x \in ForwardsOf(jb, b) :
                              log[x].msg = Through(b.logic.f, log[i].msg)

\* two map_in_place and a terminal sink on one stream were pushed a batch
CopyWitness ==
    \E i \in TeePushes :
        /\ log[i].msg.some /\ Len(log[i].msg.data) = 2
        /\ \E a, b, c \in OwnSinks(log[i].id) :
               /\ a.id < b.id /\ b.id < c.id
               /\ a.kind = "probe"
               /\ b.logic.op = "map_in_place" /\ c.logic.op = "map_in_place"
               /\ CallsOn(i, a) # {} /\ CallsOn(i, b) # {} /\ CallsOn(i, c) # {}

\* C9  Empty batches are not dropped: a Tee pushed Some((T, <<>>)) calls every
\* one of its sinks once with Some((T, <<>>)); a MapPusher called with it
\* applies its function once and pushes exactly one Some with timestamp T.
EmptyBatches ==
    /\ \A i \in TeePushes : (log[i].msg.some /\ log[i].msg.data = <<>>) =>
           /\ DeliveredOnce(i, RefSinks(log[i].id), "push_ref", log[i].msg)
           /\ DeliveredOnce(i, OwnSinks(log[i].id), "push", log[i].msg)
    /\ \A s \in MapPushers : \A i \in CallsOfSink(s) :
           (log[i].msg.some /\ log[i].msg.data = <<>>) =>
               /\ Cardinality(FuncCallsOf(i, s)) = 1
               /\ Cardinality(ForwardsOf(i, s)) = 1
               /\ \A j \in ForwardsOf(i, s) :
                      log[j].msg.some /\ log[j].msg.time = log[i].msg.time

\* an empty batch went through a map_batch and a map_batch_ref combinator to a
\* terminal sink
EmptyWitness ==
    \E a, b \in MapPushers, p \in Probes :
        /\ a \in OwnSinks(1) /\ b \in RefSinks(a.tee) /\ p \in OwnSinks(b.tee)
        /\ \E j \in CallsOfSink(p) :
               log[j].msg.some /\ log[j].msg.data = <<>> /\ log[j].msg.time = 1

\* C10  Shared sink lists: every Tee clone and every TeeHelper clone refers to
\* the two lists of the original, no list is ever added, a registration
\* through any TeeHelper appends to one of these two lists, and a push through
\* any of the Tees calls every sink registered so far exactly once.
SharedStep ==
    /\ Len(cells') = 2
    /\ \A t \in 1 .. Len(tees') :
           tees'[t].ref_outputs = 1 /\ tees'[t].outputs = 2
    /\ \A h \in 1 .. Len(helpers') :
           helpers'[h].ref_outputs = 1 /\ helpers'[h].outputs = 2
    /\ nsinks' = nsinks + 1 =>
           \E c \in 1 .. 2 :
               /\ Len(cells'[c]) = Len(cells[c]) + 1
               /\ SubSeq(cells'[c], 1, Len(cells[c])) = cells[c]
               /\ cells'[c][Len(cells'[c])].id = nsinks'
    /\ npush' = npush + 1 =>
           \A s \in SinksOf(1) \cup SinksOf(2) :
               Cardinality({i \in DOMAIN log' :
                   IsCallOn(log'[i], s.id) /\ log'[i].k = npush'}) = 1

SharedLists == [][SharedStep]_vars

\* sinks registered while a Tee clone and a TeeHelper clone exist have been
\* served by a push through the original and by a push through the clone
SharedWitness ==
    /\ Len(tees) = 2 /\ Len(helpers) = 2
    /\ SinksOf(1) # {} /\ SinksOf(2) # {}
    /\ \E i1, i2 \in TeePushes :
           /\ log[i1].id = 1 /\ log[i2].id = 2
           /\ \A s \in SinksOf(1) \cup SinksOf(2) :
                  CallsOn(i1, s) # {} /\ CallsOn(i2, s) # {}

\* ---- flat_map observed ----------------------------------------------------
Pipes == {s \in AllSinks : s.kind = "pipe"}

\* the results of g over the records of a batch, from the last record back
RECURSIVE ConcatOver(_, _)
ConcatOver(g, B) ==
    IF B = <<>> THEN <<>>
    ELSE ConcatOver(g, SubSeq(B, 1, Len(B) - 1)) \o ApplyFlat(g, B[Len(B)])

Stamped(time, recs) == [i \in 1 .. Len(recs) |-> <<time, recs[i]>>]

\* the (timestamp, record) pairs g should produce from batches [time, data]
RECURSIVE ExpectedPairs(_, _)
ExpectedPairs(g, batches) ==
    IF batches = <<>> THEN <<>>
    ELSE LET last == batches[Len(batches)]
         IN ExpectedPairs(g, SubSeq(batches, 1, Len(batches) - 1))
                \o Stamped(last.time, ConcatOver(g, last.data))

\* the (timestamp, record) pairs of a sequence of calls
RECURSIVE PairsOf(_)
PairsOf(events) ==
    IF events = <<>> THEN <<>>
    ELSE Stamped(Head(events).msg.time, Head(events).msg.data) \o PairsOf(Tail(events))

IsBatchFor(e, id) == IsCallOn(e, id) /\ e.msg.some
IsPushOf(e, t) == e.kind = "tee" /\ e.id = t /\ e.msg.some

\* the batches operator op was pushed, those still waiting in its input, and
\* the pairs pushed into its output stream
ReceivedBy(op) ==
    LET es == SelectSeq(log, LAMBDA e : IsBatchFor(e, op.id))
    IN [i \in 1 .. Len(es) |-> [time |-> es[i].msg.time, data |-> es[i].msg.data]]
PendingFor(op) == SelectSeq(queue, LAMBDA q : IsFor(q, op.id))
DeliveredBy(op) == PairsOf(SelectSeq(log, LAMBDA e : IsPushOf(e, op.tee)))

\* C8  Flat-map cardinality and order: the records a flat_map(g) operator has
\* pushed downstream, with their timestamps, followed by what the batches
\* still waiting in its input will yield, are the results g(x) of all records
\* x it was pushed, in input order, each with the timestamp of its batch; once
\* the input is drained their number is the sum of the |g(x)|.
FlatMapOrder ==
    \A op \in Pipes :
        /\ DeliveredBy(op) \o ExpectedPairs(op.logic.f, PendingFor(op))
               = ExpectedPairs(op.logic.f, ReceivedBy(op))
        /\ PendingFor(op) = <<>> =>
               Len(DeliveredBy(op)) = Len(ExpectedPairs(op.logic.f, ReceivedBy(op)))

\* an operator has drained two batches with different timestamps, one record
\* yielding nothing and three records yielding two results each
FlatMapWitness ==
    \E op \in Pipes :
        /\ PendingFor(op) = <<>>
        /\ Len(ReceivedBy(op)) = 2
        /\ ReceivedBy(op)[1].time # ReceivedBy(op)[2].time
        /\ ReceivedBy(op)[1].data = <<1, 1>>
        /\ ReceivedBy(op)[2].data = <<0, 1>>
        /\ Len(DeliveredBy(op)) = 6

\* ---- byref consumers ------------------------------------------------------
IsPushInto(e, t) == e.kind = "tee" /\ e.id = t
MsgsOf(events) == [i \in 1 .. Len(events) |-> events[i].msg]

\* the messages pushed into Tee t, in push order
PushedInto(t) == MsgsOf(SelectSeq(log, LAMBDA e : IsPushInto(e, t)))

\* C11  By-reference consumers do not consume: whatever byref sinks (map_ref
\* combinators, terminal byref sinks) a stream has, each of its owning sinks
\* observes exactly the sequence of messages pushed into the stream's Tee,
\* timestamps and batch contents unchanged.
ByRefDoNotConsume ==
    \A t \in 1 .. Len(tees) : \A s \in OwnSinks(t) :
        /\ MsgsOf(Seen(s)) = PushedInto(t)
        /\ \A j \in CallsOfSink(s) : log[j].via = "push"

\* a stream with two map_ref combinators and an owning sink was pushed two
\* batches of two records; the combinators pushed other records downstream
ByRefWitness ==
    /\ npush = 2
    /\ \E a, b \in RefSinks(1), p \in OwnSinks(1) :
           /\ a # b
           /\ a.logic.op = "map_ref" /\ b.logic.op = "map_ref"
           /\ Len(Seen(p)) = 2
           /\ \A k \in 1 .. 2 :
                  /\ Seen(p)[k].msg.some
                  /\ Len(Seen(p)[k].msg.data) = 2
           /\ \A i \in CallsOfSink(a) : \A j \in ForwardsOf(i, a) :
                  log[j].msg # log[i].msg

\* ---- closure in graphs of combinators -------------------------------------
\* C12  Closure through chains: a None pushed by the producer reaches every
\* Tee of the graph exactly once and every sink exactly once, as None, at any
\* depth and through owning and byref attachments alike; a MapPusher on the
\* way does not call its function and pushes exactly one None into its Tee.
ClosureThroughChains ==
    \A k \in 1 .. npush : ~Pushed(k).some =>
        /\ \A t \in 1 .. Len(tees) :
               /\ Cardinality(Calls("tee", t, k)) = 1
               /\ \A i \in Calls("tee", t, k) : ~log[i].msg.some
        /\ \A s \in AllSinks :
               /\ Cardinality(Calls("sink", s.id, k)) = 1
               /\ \A j \in Calls("sink", s.id, k) :
                      /\ ~log[j].msg.some
                      /\ s.kind = "map" =>
                             /\ FuncCallsOf(j, s) = {}
                             /\ Cardinality(ForwardsOf(j, s)) = 1

\* a None reached a terminal sink behind a byref map_ref and an owning map
ClosureChainWitness ==
    \E a, b \in MapPushers, p \in Probes :
        /\ a \in RefSinks(1) /\ b \in OwnSinks(a.tee) /\ p \in OwnSinks(b.tee)
        /\ \E k \in 1 .. npush :
               /\ ~Pushed(k).some
               /\ \E j \in Calls("sink", p.id, k) : ~log[j].msg.some

\* ---- the MapPusher as a relay ---------------------------------------------
\* what the function of MapPusher s makes of a message
Mapped(s, m) == IF m.some THEN Some(m.time, ApplyLogic(s.logic, m.data)) ELSE None

\* C13  MapPusher is a 1:1 relay: every call of push or push_ref on a
\* MapPusher has made, before it returned, exactly one push into its inner
\* Tee and nothing else but the call of its function; for Some the function
\* was called once, on the message received, and its result was forwarded; for
\* None the function was not called and None was forwarded.  What is forwarded
\* depends on the message of this call alone.
MapPusherRelay ==
    \A s \in MapPushers : \A i \in CallsOfSink(s) :
        /\ Cardinality(ForwardsOf(i, s)) = 1
        /\ Children(i) = ForwardsOf(i, s) \cup FuncCallsOf(i, s)
        /\ \A j \in ForwardsOf(i, s) :
               /\ log[j].via = "push"
               /\ log[j].msg = Mapped(s, log[i].msg)
               /\ \A c \in FuncCallsOf(i, s) : c < j
        /\ IF log[i].msg.some
           THEN /\ Cardinality(FuncCallsOf(i, s)) = 1
                /\ \A c \in FuncCallsOf(i, s) : log[c].msg = log[i].msg
           ELSE FuncCallsOf(i, s) = {}

\* a MapPusher called through push and one called through push_ref have each
\* relayed a batch of two records and then a None
RelayWitness ==
    \E a, b \in MapPushers :
        /\ a \in OwnSinks(1) /\ b \in RefSinks(1)
        /\ \A s \in {a, b} :
               /\ Len(Seen(s)) = 2
               /\ Seen(s)[1].msg.some /\ Len(Seen(s)[1].msg.data) = 2
               /\ ~Seen(s)[2].msg.some
               /\ \A i \in CallsOfSink(s) : ForwardsOf(i, s) # {}

\* ---- the two loops of Tee::push -------------------------------------------
\* C14  Byref before owning: in every Tee push, Some or None, each byref sink
\* of the Tee was called once, through push_ref, with the message as it was
\* pushed, and all these calls came before the first call of an owning sink.
ByRefBeforeOwning ==
    \A i \in TeePushes :
        /\ DeliveredOnce(i, RefSinks(log[i].id), "push_ref", log[i].msg)
        /\ \A r \in RefSinks(log[i].id), o \in OwnSinks(log[i].id) :
               /\ CallsOn(i, o) # {}
               /\ Before(i, r, o)

\* a Tee whose owning sinks were registered before its byref sink was pushed
\* a batch of two records and a None
ByRefFirstWitness ==
    /\ npush = 2
    /\ \E o1, o2 \in OwnSinks(1), r \in RefSinks(1) :
           /\ o1.id < o2.id /\ o2.id < r.id
           /\ Pushed(1).some /\ Len(Pushed(1).data) = 2 /\ ~Pushed(2).some
           /\ \A i \in TeePushes :
                  CallsOn(i, r) # {} /\ CallsOn(i, o1) # {} /\ CallsOn(i, o2) # {}

\* ---- run to completion ----------------------------------------------------
\* C15  Synchronous run-to-completion delivery: once a push of the producer
\* has returned, every terminal sink of the graph has been called with the
\* message derived from it and nothing is left waiting; so every call that
\* belongs to a push comes before every call that belongs to the next push,
\* and each push's calls form one call tree under the producer's call.
RunToCompletion ==
    /\ queue = <<>>
    /\ \A k \in 1 .. npush : \A s \in Probes :
           \E j \in Calls("sink", s.id, k) : log[j].msg = Derived(s, Pushed(k))
    /\ \A i, j \in DOMAIN log : log[i].k < log[j].k => i < j
    /\ \A i \in DOMAIN log :
           /\ log[i].k \in 1 .. npush
           /\ log[i].d = 0 <=> (i = 1 \/ log[i - 1].k < log[i].k)

\* a terminal sink on the producer's stream and one behind a map were both
\* served by two pushes
CompletionWitness ==
    /\ npush = 2
    /\ Pushed(1).some /\ Len(Pushed(1).data) = 2
    /\ \E p, q \in Probes, a \in MapPushers :
           /\ p \in OwnSinks(1) /\ a \in OwnSinks(1) /\ q \in OwnSinks(a.tee)
           /\ p.id < a.id
           /\ Len(Seen(p)) = 2 /\ Len(Seen(q)) = 2

\* ---- the map variants -----------------------------------------------------
\* the Tee whose sink lists hold s
Upstream(s) == TeeOfCell(CellOf(s))

\* C16  Map variants agree: a map_ref(f) or map_in_place(f) combinator pushes
\* into its stream, for every message it is called with, what map(f) pushes:
\* the same timestamp and the batch of the f(x), same length and order; and
\* two combinators of any variants with the same f on one stream have pushed
\* the same sequence of messages into their streams.
MapVariantsAgree ==
    /\ \A s \in MapPushers : \A i \in CallsOfSink(s) :
           /\ ForwardsOf(i, s) # {}
           /\ \A j \in ForwardsOf(i, s) :
                  /\ log[j].msg.some = log[i].msg.some
                  /\ log[j].msg.time = log[i].msg.time
                  /\ log[j].msg.data = MapLogic(s.logic.f, log[i].msg.data)
                  /\ Len(log[j].msg.data) = Len(log[i].msg.data)
    /\ \A a, b \in MapPushers :
           (Upstream(a) = Upstream(b) /\ a.logic.f = b.logic.f) =>
               PushedInto(a.tee) = PushedInto(b.tee)

\* a map_ref and a map_in_place on the producer's stream have each mapped two
\* batches of two different records
VariantsWitness ==
    /\ npush = 2
    /\ \E a, b \in MapPushers :
           /\ Upstream(a) = 1 /\ Upstream(b) = 1
           /\ a.logic.op = "map_ref" /\ b.logic.op = "map_in_place"
           /\ Len(PushedInto(a.tee)) = 2 /\ Len(PushedInto(b.tee)) = 2
           /\ \A k \in 1 .. 2 :
                  /\ Pushed(k).some
                  /\ Len(Pushed(k).data) = 2
                  /\ Pushed(k).data[1] # Pushed(k).data[2]
                  /\ PushedInto(a.tee)[k] # Pushed(k)

\* ---- one Tee over time ----------------------------------------------------
\* the calls a step has added to the log, and those of them made on sink s
NewCalls == (Len(log) + 1) .. Len(log')
NewCallsOn(s) == {j \in NewCalls : IsCallOn(log'[j], s.id)}

\* the sinks registered through add_ref_pusher and add_pusher before the step
RefBefore == SinksOf(1)
OwnBefore == SinksOf(2)

\* the step is a push of the producer, of message m
IsPushStep == npush' = npush + 1
PushedNow == log'[Len(log) + 1].msg

\* every sink registered before the step is called once in it, with m
ServedAll(m) ==
    /\ \A s \in RefBefore :
           /\ Cardinality(NewCallsOn(s)) = 1
           /\ \A j \in NewCallsOn(s) : log'[j].via = "push_ref" /\ log'[j].msg = m
    /\ \A s \in OwnBefore :
           /\ Cardinality(NewCallsOn(s)) = 1
           /\ \A j \in NewCallsOn(s) : log'[j].via = "push" /\ log'[j].msg = m
    /\ Cardinality(NewCalls) = 1 + Cardinality(RefBefore) + Cardinality(OwnBefore)

\* C17  A Tee keeps no closure state: whatever was pushed before, None
\* included, a push of None calls every registered sink once with None and a
\* push of Some((T, R)) calls every registered sink once with (T, R); no other
\* step calls a sink.  So a sink gets one None per None pushed while it is
\* registered, and batches after a None are delivered as before it.
NoClosureStep ==
    /\ IsPushStep => ServedAll(PushedNow)
    /\ ~IsPushStep => log' = log

NoClosureState == [][NoClosureStep]_vars

\* a None and then a batch of two records were pushed into a Tee with a byref
\* sink and two owning sinks, and each sink has seen both
NoClosureWitness ==
    /\ npush = 2
    /\ ~Pushed(1).some /\ Pushed(2).some /\ Len(Pushed(2).data) = 2
    /\ Cardinality(OwnSinks(1)) = 2 /\ Cardinality(RefSinks(1)) = 1
    /\ \A s \in OwnSinks(1) \cup RefSinks(1) :
           /\ Len(Seen(s)) = 2
           /\ ~Seen(s)[1].msg.some
           /\ Seen(s)[2].msg = Pushed(2)

\* what sink s has seen is what the last Len(Seen(s)) pushes pushed, in order
SeenSuffix(s) ==
    LET n == Len(Seen(s))
    IN /\ n <= npush
       /\ \A x \in 1 .. n :
              /\ Seen(s)[x].k = npush - n + x
              /\ Seen(s)[x].msg = Pushed(npush - n + x)

SeenSuffixes ==
    /\ \A s \in AllSinks : SeenSuffix(s)
    /\ \A a, b \in AllSinks : a.id < b.id => Len(Seen(a)) >= Len(Seen(b))

\* a registration calls nobody and leaves the sinks registered before it in
\* place; a push adds to the log, changing nothing of what was observed, one
\* call per registered sink with the message pushed
LateStep ==
    /\ nsinks' = nsinks + 1 =>
           /\ log' = log /\ npush' = npush
           /\ \A j \in DOMAIN log : ~IsCallOn(log[j], nsinks')
           /\ \A c \in 1 .. 2 : SubSeq(cells'[c], 1, Len(cells[c])) = cells[c]
    /\ IsPushStep =>
           /\ SubSeq(log', 1, Len(log)) = log
           /\ cells' = cells
           /\ ServedAll(PushedNow)

\* C18  Late registration, no replay: a sink registered after k pushes has
\* seen nothing when it is registered and then exactly the pushes from the
\* (k+1)-th on, in order; what the sinks registered before it observe, the
\* sink that was last in the owning list included, is every push in full,
\* before the registration and after it.
LateRegistration == []SeenSuffixes /\ [][LateStep]_vars

\* an owning sink saw two batches; a second owning sink and a byref sink
\* registered between the two pushes saw the second batch only
LateWitness ==
    /\ npush = 2
    /\ Pushed(1).some /\ Pushed(2).some
    /\ Len(Pushed(1).data) = 2 /\ Len(Pushed(2).data) = 2
    /\ Pushed(1) # Pushed(2)
    /\ \E o1, o2 \in OwnSinks(1), r \in RefSinks(1) :
           /\ o1.id < o2.id
           /\ MsgsOf(Seen(o1)) = <<Pushed(1), Pushed(2)>>
           /\ MsgsOf(Seen(o2)) = <<Pushed(2)>>
           /\ MsgsOf(Seen(r)) = <<Pushed(2)>>

\* ---- a Tee without owning sinks -------------------------------------------
\* C19  No owning sinks: a push of Some((T, R)) into a Tee whose owning list
\* is empty does not panic, calls each byref sink once through push_ref with
\* (T, R) and makes no other call; when it was the producer's push, the
\* producer's message slot still holds (T, R).
NoOwningSinks ==
    /\ ~panicked
    /\ \A i \in TeePushes :
           (log[i].msg.some /\ OwnSinks(log[i].id) = {}) =>
               /\ DeliveredOnce(i, RefSinks(log[i].id), "push_ref", log[i].msg)
               /\ Cardinality(Children(i)) = Cardinality(RefSinks(log[i].id))
               /\ \A j \in Children(i) : log[j].via = "push_ref"
    /\ (npush > 0 /\ Pushed(npush).some /\ OwnSinks(1) = {}) =>
           slot = Pushed(npush)

\* the producer pushed a batch of two records into a Tee with two byref sinks
\* and no owning sink
NoOwningWitness ==
    /\ npush > 0
    /\ OwnSinks(1) = {}
    /\ Cardinality(RefSinks(1)) = 2
    /\ Pushed(npush).some /\ Len(Pushed(npush).data) = 2
    /\ slot.some /\ Len(slot.data) = 2
    /\ \A s \in RefSinks(1) : Calls("sink", s.id, npush) # {}

\* ---- registration from within a push --------------------------------------
Hooks == {s \in AllSinks : s.kind = "hook"}

\* the registrations callbacks made, or tried to make, during push k
RegsIn(k) == {i \in DOMAIN log : log[i].kind = "reg" /\ log[i].k = k}

\* C20 as stated: a push during which no registration has panicked calls
\* exactly the sinks that were registered when it began, each once and with
\* the message pushed; a sink registered by a callback during the push is
\* called from the next push on.
RecipientsFixedStep ==
    (IsPushStep /\ ~panicked') =>
        /\ \A s \in RefBefore \cup OwnBefore :
               /\ Cardinality(NewCallsOn(s)) = 1
               /\ \A j \in NewCallsOn(s) : log'[j].msg = PushedNow
        /\ \A j \in NewCalls :
               log'[j].kind = "sink" =>
                   \E s \in RefBefore \cup OwnBefore : s.id = log'[j].id

====
